---- MODULE Spec2Model ----
(***************************************************************************)
(* A model of local-reverse-postalcode: src/index.js (the geocoder: data   *)
(* acquisition, tab-separated parsing, k-d tree build, lookUp) and         *)
(* src/unnamed/part_000 (the express web service in front of it).          *)
(*                                                                         *)
(* JavaScript values are tagged tuples, so that values of different types  *)
(* compare unequal instead of being incomparable:                          *)
(*   <<"null">>, <<"undefined">>, <<"str", chars>>, <<"num", n>>,          *)
(*   <<"ref", i>> (a reference to the i-th lineObj), <<"arr", elems>>.     *)
(* A string is a sequence of one-character strings.                        *)
(***************************************************************************)
EXTENDS Integers, Sequences, FiniteSets, TLC

\* ------------------------------------------------------------------ bounds
\* Most lines the data file holds.
MaxLines == 2
\* Largest maxResults a caller passes.
MaxK == 2
\* Longest line of the parsing specification, in characters.
MaxLineLen == 12

\* ------------------------------------------------------------ JS values
Null == <<"null">>
Undefined == <<"undefined">>
Str(s) == <<"str", s>>
Num(n) == <<"num", n>>
Ref(i) == <<"ref", i>>
Arr(s) == <<"arr", s>>

TAB == "\t"

\* The digit a one-character string stands for.
DigitVal(c) ==
  CASE c = "0" -> 0 [] c = "1" -> 1 [] c = "2" -> 2 [] c = "3" -> 3
    [] c = "4" -> 4 [] c = "5" -> 5 [] c = "6" -> 6 [] c = "7" -> 7
    [] c = "8" -> 8 [] c = "9" -> 9

RECURSIVE ParseDigits(_)
ParseDigits(s) ==
  IF s = <<>> THEN 0
  ELSE 10 * ParseDigits(SubSeq(s, 1, Len(s) - 1)) + DigitVal(s[Len(s)])

\* JavaScript's numeric coercion, as applied by `a - b` and `num * Math.PI`
\* to the coordinates: null and "" are 0, a digit string is its number.
ToNumber(v) ==
  CASE v[1] = "null" -> 0
    [] v[1] = "num" -> v[2]
    [] v[1] = "str" -> ParseDigits(v[2])

\* Lexicographic order of two digit strings (JavaScript's < on two strings).
RECURSIVE StrLess(_, _)
StrLess(s, t) ==
  IF t = <<>> THEN FALSE
  ELSE IF s = <<>> THEN TRUE
  ELSE IF s[1] # t[1] THEN DigitVal(s[1]) < DigitVal(t[1])
  ELSE StrLess(Tail(s), Tail(t))

\* JavaScript's a < b: two strings compare as strings, anything else as numbers.
JsLess(a, b) ==
  IF a[1] = "str" /\ b[1] = "str" THEN StrLess(a[2], b[2])
  ELSE ToNumber(a) < ToNumber(b)

\* --------------------------------------------------------------- parsing
POSTALCODE_COLUMNS ==
  << "countryCode", "postalCode", "placeName", "adminName1", "adminCode1",
     "adminName2", "adminCode2", "adminName3", "adminCode3",
     "latitude", "longitude", "accuracy" >>

\* Every property name a lineObj can carry: the columns, and the distance
\* lookUp writes into it.
Properties == {POSTALCODE_COLUMNS[i] : i \in 1..Len(POSTALCODE_COLUMNS)} \cup {"distance"}

\* line.split('\t'): the fields between the tabs; '' splits to [''].
RECURSIVE Split(_, _)
Split(line, acc) ==
  IF line = <<>> THEN <<acc>>
  ELSE IF line[1] = TAB THEN <<acc>> \o Split(Tail(line), <<>>)
  ELSE Split(Tail(line), Append(acc, line[1]))

\* Column without its `|| null`: a missing field stays undefined and an empty
\* field stays ''.
Column_NoDefault(fields, i) ==
  IF i > Len(fields) THEN Undefined ELSE Str(fields[i])

\* line[i] || null: a missing field (undefined) and an empty field ('') are null.
Column(fields, i) ==
  IF i > Len(fields) \/ fields[i] = <<>> THEN Null ELSE Str(fields[i])

\* The lineObj the each() callback builds from one line.
ParseLine(line) ==
  LET fields == Split(line, <<>>)
  IN [p \in Properties |->
        IF \E i \in 1..Len(POSTALCODE_COLUMNS) : POSTALCODE_COLUMNS[i] = p
        THEN Column(fields, CHOOSE i \in 1..Len(POSTALCODE_COLUMNS) : POSTALCODE_COLUMNS[i] = p)
        ELSE Undefined]

\* -------------------------------------------------------------- distance
\* _distanceFunc(x, y). The haversine great-circle distance R*c grows with
\* a = sin^2(dphi/2) + cos(phi1) cos(phi2) sin^2(dlambda/2); on the small
\* integer grid of the model it is represented by dphi^2 + dlambda^2, which
\* orders point pairs as a does for small angles near the equator.
DistanceFunc(x, y) ==
  LET dphi == ToNumber(y.latitude) - ToNumber(x.latitude)
      dlambda == ToNumber(y.longitude) - ToNumber(x.longitude)
  IN dphi * dphi + dlambda * dlambda

\* --------------------------------------------------------- kdt: the tree
\* The k-d tree of the kdt package (a port of Ubilabs' kd-tree-javascript),
\* as createKdTree(data, _distanceFunc, dimensions) builds it and as
\* nearest(point, maxNodes) searches it. A node is <<obj, dimension, left,
\* right>>, obj the index of its lineObj in data; the null node is <<>>.
dimensions == << "latitude", "longitude" >>

NoNode == << >>
Node(obj, dim, left, right) == << obj, dim, left, right >>

\* points.sort(function (a, b) { return a[dim] - b[dim]; }): x is put after
\* the elements that do not compare greater (the sort keeps equal keys in order).
RECURSIVE InsertSorted(_, _, _, _)
InsertSorted(objs, sorted, x, dim) ==
  IF sorted = <<>> THEN <<x>>
  ELSE IF ToNumber(objs[x][dim]) - ToNumber(objs[sorted[1]][dim]) < 0
       THEN <<x>> \o sorted
       ELSE <<sorted[1]>> \o InsertSorted(objs, Tail(sorted), x, dim)

RECURSIVE SortPoints(_, _, _)
SortPoints(objs, points, dim) ==
  IF points = <<>> THEN <<>>
  ELSE InsertSorted(objs,
                    SortPoints(objs, SubSeq(points, 1, Len(points) - 1), dim),
                    points[Len(points)], dim)

\* buildTree(points, depth, parent)
RECURSIVE BuildTree(_, _, _)
BuildTree(objs, points, depth) ==
  LET dim == depth % Len(dimensions)
  IN IF Len(points) = 0 THEN NoNode
     ELSE IF Len(points) = 1 THEN Node(points[1], dim, NoNode, NoNode)
     ELSE LET sorted == SortPoints(objs, points, dimensions[dim + 1])
              median == Len(sorted) \div 2
          IN Node(sorted[median + 1], dim,
                  BuildTree(objs, SubSeq(sorted, 1, median), depth + 1),
                  BuildTree(objs, SubSeq(sorted, median + 2, Len(sorted)), depth + 1))

\* --------------------------------------------------- kdt: the binary heap
\* BinaryHeap(function (e) { return -e[1]; }): content is a sequence of
\* <<obj, distance>>, the entry of the greatest distance at its head.
Score(e) == 0 - e[2]

Swap(content, i, j) == [content EXCEPT ![i] = content[j], ![j] = content[i]]

\* bubbleUp(n), n counted from 1: the parent of n is n \div 2.
RECURSIVE BubbleUp(_, _)
BubbleUp(content, n) ==
  IF n > 1 /\ Score(content[n]) < Score(content[n \div 2])
  THEN BubbleUp(Swap(content, n, n \div 2), n \div 2)
  ELSE content

\* sinkDown(n), n counted from 1: the children of n are 2n and 2n + 1.
RECURSIVE SinkDown(_, _)
SinkDown(content, n) ==
  LET length == Len(content)
      child1N == 2 * n
      child2N == 2 * n + 1
      elemScore == Score(content[n])
      swap1 == IF child1N <= length /\ Score(content[child1N]) < elemScore
               THEN child1N ELSE 0
      swap == IF child2N <= length
                 /\ Score(content[child2N]) <
                      (IF swap1 = 0 THEN elemScore ELSE Score(content[child1N]))
              THEN child2N ELSE swap1
  IN IF swap # 0 THEN SinkDown(Swap(content, n, swap), swap) ELSE content

HeapPush(content, element) ==
  BubbleUp(Append(content, element), Len(content) + 1)

\* pop(): the head leaves, the last entry takes its place and sinks.
HeapPop(content) ==
  LET end == content[Len(content)]
      rest == SubSeq(content, 1, Len(content) - 1)
  IN IF Len(rest) > 0 THEN SinkDown([rest EXCEPT ![1] = end], 1) ELSE rest

\* saveNode(node, distance)
SaveNode(bestNodes, node, distance, maxNodes) ==
  LET pushed == HeapPush(bestNodes, << node[1], distance >>)
  IN IF Len(pushed) > maxNodes THEN HeapPop(pushed) ELSE pushed

\* ------------------------------------------------------- kdt: the search
Abs(n) == IF n < 0 THEN 0 - n ELSE n

Min(a, b) == IF a < b THEN a ELSE b

\* linearPoint: the query's coordinate in the node's dimension, the node's
\* own coordinate in the other.
LinearPoint(os, node, point) ==
  [d \in {"latitude", "longitude"} |->
     IF d = dimensions[node[2] + 1] THEN point[d] ELSE os[node[1]][d]]

\* if (bestNodes.size() < maxNodes || distance < bestNodes.peek()[1])
\*   saveNode(node, distance)
SaveIfBetter(bestNodes, node, distance, maxNodes) ==
  IF Len(bestNodes) < maxNodes \/ distance < bestNodes[1][2]
  THEN SaveNode(bestNodes, node, distance, maxNodes)
  ELSE bestNodes

\* The choice of bestChild: the only child, or the side of the node the
\* query lies on in the node's dimension.
BestIsLeft(os, node, point) ==
  IF node[4] = NoNode THEN TRUE
  ELSE IF node[3] = NoNode THEN FALSE
  ELSE JsLess(point[dimensions[node[2] + 1]], os[node[1]][dimensions[node[2] + 1]])

Child(node, isLeft) == IF isLeft THEN node[3] ELSE node[4]

\* nearestSearch(node): the heap bestNodes after the search of node's subtree.
RECURSIVE NearestSearch(_, _, _, _, _)
\* The end of nearestSearch: the other child is searched when the heap is
\* not full or the splitting plane is nearer than the farthest entry.
SearchOther(os, otherChild, point, maxNodes, linearDistance, bestNodes) ==
  IF (Len(bestNodes) < maxNodes \/ Abs(linearDistance) < bestNodes[1][2])
     /\ otherChild # NoNode
  THEN NearestSearch(os, otherChild, point, maxNodes, bestNodes)
  ELSE bestNodes

\* nearestSearch of an inner node, its bestChild known.
SearchInner(os, node, point, maxNodes, bestNodes, bestIsLeft) ==
  SearchOther(os, Child(node, ~bestIsLeft), point, maxNodes,
              DistanceFunc(LinearPoint(os, node, point), os[node[1]]),
              SaveIfBetter(NearestSearch(os, Child(node, bestIsLeft), point,
                                         maxNodes, bestNodes),
                           node, DistanceFunc(point, os[node[1]]), maxNodes))

NearestSearch(os, node, point, maxNodes, bestNodes) ==
  IF node[4] = NoNode /\ node[3] = NoNode
  THEN SaveIfBetter(bestNodes, node, DistanceFunc(point, os[node[1]]), maxNodes)
  ELSE SearchInner(os, node, point, maxNodes, bestNodes, BestIsLeft(os, node, point))

\* The result loop of nearest: the first min(maxNodes, size) heap entries, in
\* the heap's own order, each <<obj, distance>>.
HeapEntries(bestNodes, maxNodes) ==
  SubSeq(bestNodes, 1, Min(maxNodes, Len(bestNodes)))

\* tree.nearest(point, maxNodes)
Nearest(os, root, point, maxNodes) ==
  HeapEntries(IF root # NoNode
              THEN NearestSearch(os, root, point, maxNodes, <<>>)
              ELSE <<>>,
              maxNodes)

\* ------------------------------------------------------------- the state
VARIABLES
  fileLines,      \* the lines of the GeoNames data file, as lines().each yields them
  initCalled,     \* geocoder.init has been called
  download,       \* _getGeoNamesPostalCodeData: "none", "requested", "piping",
                  \* "pipingBad", "unzipping", "done", "errored"
  acqCallbacks,   \* times _getGeoNamesPostalCodeData has called its callback
  finalCalled,    \* async.waterfall has called its final callback
  parse,          \* _parseGeoNamesPostalCodesCsv: "none", "reading", "complete", "failed"
  lineNo,         \* lines each() has consumed
  data,           \* the data array of the parse
  kdTree,         \* geocoder._kdTree: [built |-> FALSE] is null
  objs,           \* the lineObjs the tree holds, by index
  dataAtBuild,    \* the lineObjs as they were when createKdTree returned
  initCallbacks,  \* times init has called its completion callback
  listening,      \* app.listen has been called
  call,           \* the last lookUp call and what its callback received
  httpRes         \* the last response of the web service

vars == << fileLines, initCalled, download, acqCallbacks, finalCalled, parse,
           lineNo, data, kdTree, objs, dataAtBuild, initCallbacks, listening,
           call, httpRes >>

\* --------------------------------------------------------------- lookUp
Obj(r) == << "obj", r >>

ErrNotInitialized == Str(<< "You must first call init before calling lookup" >>)

\* zipCode[0].distance = zipCode[1], for each zipCode of result
RECURSIVE Annotate(_, _)
Annotate(os, result) ==
  IF result = <<>> THEN os
  ELSE Annotate([os EXCEPT ![result[1][1]]["distance"] = Num(result[1][2])],
                Tail(result))

\* ZipCodeList pushing only the zipCodes whose distance is truthy: a record at
\* distance 0 is left out.
ZipCodeList_SkipsZero(result) ==
  LET kept == SelectSeq(result, LAMBDA z : z[2] # 0)
  IN [i \in 1..Len(kept) |-> Ref(kept[i][1])]

\* zipCodeList.push(zipCode[0]), for each zipCode of result
ZipCodeList(result) == [i \in 1..Len(result) |-> Ref(result[i][1])]

\* The body of functions[i] after nearest has returned result: what it leaves
\* in the lineObjs and what it hands to innerCallback.
TaskResult(os, result) ==
  IF Len(result) > 0
  THEN [objs |-> Annotate(os, result), zipCodeList |-> Arr(ZipCodeList(result))]
  ELSE [objs |-> os, zipCodeList |-> Arr(<<>>)]

\* functions[i]: one point's task.
LookUpTask(os, root, point, maxResults) ==
  TaskResult(os, Nearest(os, root, point[2], maxResults))

\* async.series(functions, ...): the tasks run one after the other, in order,
\* each result appended to results.
RECURSIVE Series(_, _, _, _)
SeriesNext(root, points, maxResults, results, t) ==
  Series(root, points, maxResults,
         [objs |-> t.objs, results |-> Append(results, t.zipCodeList)])

Series(root, points, maxResults, acc) ==
  IF points = <<>> THEN acc
  ELSE SeriesNext(root, Tail(points), maxResults, acc.results,
                  LookUpTask(acc.objs, root, points[1], maxResults))

\* if (!Array.isArray(points)) points = [points]
PointsArray(points) == IF points[1] = "arr" THEN points[2] ELSE << points >>

\* The final callback of the series: callback(null, results).
SeriesDone(s) ==
  [err |-> Null, results |-> Arr(s.results), objs |-> s.objs,
   nearestCalls |-> Len(s.results)]

\* _lookUp without its check of this._kdTree.
InnerLookUp_NoCheck(tree, os, points, maxResults) ==
  SeriesDone(Series(tree.root, PointsArray(points), maxResults,
                    [objs |-> os, results |-> <<>>]))

\* _lookUp(points, maxResults, callback): what the callback receives, the
\* lineObjs afterwards, and the calls of nearest made.
InnerLookUp(tree, os, points, maxResults) ==
  IF ~tree.built
  THEN [err |-> ErrNotInitialized, results |-> Undefined, objs |-> os,
        nearestCalls |-> 0]
  ELSE SeriesDone(Series(tree.root, PointsArray(points), maxResults,
                         [objs |-> os, results |-> <<>>]))

\* Deliver testing results[0].length instead of results.length: an empty
\* result sequence is delivered as no result.
Deliver_EmptyAsNone(results) ==
  IF results # Undefined /\ Len(results[2]) > 0 /\ Len(results[2][1][2]) > 0
  THEN results[2][1] ELSE Undefined

\* The callback lookUp hands to _lookUp: results[0] when results is a
\* non-empty array, no result otherwise.
Deliver(results) ==
  IF results # Undefined /\ Len(results[2]) > 0 THEN results[2][1] ELSE Undefined

\* The lineObjs a delivered value refers to, as the caller reads them.
Read(os, value) ==
  IF value[1] = "arr"
  THEN [i \in 1..Len(value[2]) |->
          IF value[2][i][1] = "ref" THEN os[value[2][i][2]] ELSE value[2][i]]
  ELSE <<>>

NoCall == [kind |-> "none"]

\* One call of lookUp as the caller sees it, and the lineObjs after it.
Outcome(points, maxResults, built, r, delivered) ==
  [kind |-> "lookUp", points |-> points, maxResults |-> maxResults,
   built |-> built, callbacks |-> 1, err |-> r.err, result |-> delivered,
   nearestCalls |-> r.nearestCalls, objs |-> r.objs,
   seen |-> Read(r.objs, delivered)]

Delivery(points, maxResults, built, r) ==
  Outcome(points, maxResults, built, r, Deliver(r.results))

\* lookUp(points, arg2, arg3) on the tree and the lineObjs given.
LookUpOn(tree, os, points, maxResults) ==
  Delivery(points, maxResults, tree.built, InnerLookUp(tree, os, points, maxResults))

\* With two arguments maxResults is 1.
MaxResults(hasMax, arg2) == IF hasMax THEN arg2 ELSE 1

\* ---------------------------------------------------------------- inputs
\* A well-formed line carries twelve fields, the latitude the tenth and the
\* longitude the eleventh; a short line has neither.
LineNear ==
  << "1", TAB, "2", TAB, "3", TAB, "1", TAB, "1", TAB, "1", TAB, "1", TAB,
     TAB, TAB, "1", TAB, "1", TAB, "2" >>
LineShort == << "1", TAB, "2" >>

LineSet == { LineNear, LineShort }

RECURSIVE SeqsUpTo(_, _)
SeqsUpTo(S, n) ==
  IF n = 0 THEN { <<>> }
  ELSE LET shorter == SeqsUpTo(S, n - 1)
       IN shorter \cup { Append(q, x) : q \in shorter, x \in S }

\* The points callers of the library pass: numbers, as in the README.
PointSet ==
  { Obj([latitude |-> Num(0), longitude |-> Num(0)]),
    Obj([latitude |-> Num(3), longitude |-> Num(1)]) }

\* One point, or an array of none, one or two points.
PointsArgs == PointSet \cup { Arr(q) : q \in SeqsUpTo(PointSet, Cardinality(PointSet)) }

\* The values of a query-string parameter: absent, or a string.
QueryValues == { Undefined, Str(<< "0" >>) }

\* ------------------------------------------------------------------ init
Init ==
  /\ fileLines \in SeqsUpTo(LineSet, MaxLines)
  /\ initCalled = FALSE
  /\ download = "none"
  /\ acqCallbacks = 0
  /\ finalCalled = FALSE
  /\ parse = "none"
  /\ lineNo = 0
  /\ data = <<>>
  /\ kdTree = [built |-> FALSE, root |-> NoNode]
  /\ objs = <<>>
  /\ dataAtBuild = <<>>
  /\ initCallbacks = 0
  /\ listening = FALSE
  /\ call = NoCall
  /\ httpRes = [status |-> 0, body |-> Undefined]

\* The final callback of async.waterfall, which async calls at most once: it
\* ignores its error and calls waterfallCallback(); async.parallel then calls
\* the main callback with no error, which calls init's callback; the web
\* service's callback calls app.listen.
WaterfallFinal ==
  IF finalCalled
  THEN UNCHANGED << finalCalled, initCallbacks, listening >>
  ELSE /\ finalCalled' = TRUE
       /\ initCallbacks' = initCallbacks + 1
       /\ listening' = TRUE

\* _getGeoNamesPostalCodeData calls callback(err): the waterfall skips the
\* parse and calls its final callback.
ContinueError ==
  /\ acqCallbacks' = acqCallbacks + 1
  /\ WaterfallFinal
  /\ UNCHANGED << parse, lineNo, data >>

\* _getGeoNamesPostalCodeData calls callback(null, filename): the waterfall
\* runs its next task, _parseGeoNamesPostalCodesCsv, which opens the file.
ContinueOk(fileThere) ==
  /\ acqCallbacks' = acqCallbacks + 1
  /\ parse' = IF fileThere THEN "reading" ELSE "failed"
  /\ lineNo' = 0
  /\ data' = <<>>
  /\ UNCHANGED << finalCalled, initCallbacks, listening >>

\* geocoder.init(callback) of the web service, a cached data file present.
InitCached ==
  /\ ~initCalled
  /\ initCalled' = TRUE
  /\ ContinueOk(TRUE)
  /\ UNCHANGED << fileLines, download, kdTree, objs, dataAtBuild, call, httpRes >>

\* geocoder.init(callback), no cached file: request.get(options) is piped
\* into the zip file.
InitDownload ==
  /\ ~initCalled
  /\ initCalled' = TRUE
  /\ download' = "requested"
  /\ UNCHANGED << fileLines, acqCallbacks, finalCalled, parse, lineNo, data, kdTree,
                  objs, dataAtBuild, initCallbacks, listening, call, httpRes >>

\* on('response'), statusCode 200: nothing but the pipe goes on.
Response200 ==
  /\ download = "requested"
  /\ download' = "piping"
  /\ UNCHANGED << fileLines, initCalled, acqCallbacks, finalCalled, parse, lineNo,
                  data, kdTree, objs, dataAtBuild, initCallbacks, listening, call, httpRes >>

\* on('response'), statusCode not 200: callback(error); the pipe goes on.
ResponseNot200 ==
  /\ download = "requested"
  /\ download' = "pipingBad"
  /\ ContinueError
  /\ UNCHANGED << fileLines, initCalled, kdTree, objs, dataAtBuild, call, httpRes >>

\* on('error'): callback(error).
RequestError ==
  /\ download \in { "requested", "piping", "pipingBad" }
  /\ download' = "errored"
  /\ ContinueError
  /\ UNCHANGED << fileLines, initCalled, kdTree, objs, dataAtBuild, call, httpRes >>

\* zipFilestream.on('close'): the zip file is piped into unzip.Extract.
ZipClose ==
  /\ download \in { "piping", "pipingBad" }
  /\ download' = "unzipping"
  /\ UNCHANGED << fileLines, initCalled, acqCallbacks, finalCalled, parse, lineNo,
                  data, kdTree, objs, dataAtBuild, initCallbacks, listening, call, httpRes >>

\* zipFilestream.on('close'), the try block throws: callback(null,
\* timestampedFilename), a file that was never written.
ZipCloseThrows ==
  /\ download \in { "piping", "pipingBad" }
  /\ download' = "errored"
  /\ ContinueOk(FALSE)
  /\ UNCHANGED << fileLines, initCalled, kdTree, objs, dataAtBuild, call, httpRes >>

\* unzip.Extract's 'close': the file is renamed, old files are removed,
\* callback(null, timestampedFilename).
UnzipClose ==
  /\ download = "unzipping"
  /\ download' = "done"
  /\ ContinueOk(TRUE)
  /\ UNCHANGED << fileLines, initCalled, kdTree, objs, dataAtBuild, call, httpRes >>

\* unzip.Extract fails on what was downloaded: 'close' never comes.
UnzipError ==
  /\ download = "unzipping"
  /\ download' = "errored"
  /\ UNCHANGED << fileLines, initCalled, acqCallbacks, finalCalled, parse, lineNo,
                  data, kdTree, objs, dataAtBuild, initCallbacks, listening, call, httpRes >>

\* lines().each(function(line) {...}): one line becomes a lineObj of data.
ParseLineStep ==
  /\ parse = "reading"
  /\ lineNo < Len(fileLines)
  /\ lineNo' = lineNo + 1
  /\ data' = Append(data, ParseLine(fileLines[lineNo + 1]))
  /\ UNCHANGED << fileLines, initCalled, download, acqCallbacks, finalCalled, parse,
                  kdTree, objs, dataAtBuild, initCallbacks, listening, call, httpRes >>

\* onComplete: the tree is built over data and the waterfall is continued.
ParseComplete ==
  /\ parse = "reading"
  /\ lineNo = Len(fileLines)
  /\ parse' = "complete"
  /\ kdTree' = [built |-> TRUE,
                root |-> BuildTree(data, [i \in 1..Len(data) |-> i], 0)]
  /\ objs' = data
  /\ dataAtBuild' = data
  /\ WaterfallFinal
  /\ UNCHANGED << fileLines, initCalled, download, acqCallbacks, lineNo, data, call, httpRes >>

\* ---------------------------------------------------------------- lookUp
CallRecord(c) == [k \in DOMAIN c \ { "objs" } |-> c[k]]

\* The state after a call of lookUp.
AfterCall(c) ==
  /\ call' = CallRecord(c)
  /\ objs' = c.objs

\* geocoder.lookUp(points, callback) or geocoder.lookUp(points, maxResults,
\* callback), by any user of the module.
LookUp ==
  /\ \E points \in PointsArgs, hasMax \in BOOLEAN, arg2 \in 1..MaxK :
       /\ hasMax \/ arg2 = 1
       /\ AfterCall(LookUpOn(kdTree, objs, points, MaxResults(hasMax, arg2)))
  /\ UNCHANGED << fileLines, initCalled, download, acqCallbacks, finalCalled, parse,
                  lineNo, data, kdTree, dataAtBuild, initCallbacks, listening,
                  httpRes >>

\* The callback of the web service: 500 with the error, else the addresses.
Respond(c) ==
  /\ AfterCall(c)
  /\ httpRes' = IF c.err # Null
                THEN [status |-> 500, body |-> c.err]
                ELSE [status |-> 200, body |-> c.result]

\* app.get(/geocode/): 400 without both coordinates, else lookUp of the one
\* point with maxResults 1.
HttpGet ==
  /\ listening
  /\ \E lat \in QueryValues, lon \in QueryValues :
       IF lat = Undefined \/ lon = Undefined
       THEN /\ httpRes' = [status |-> 400, body |-> Str(<< "Bad Request" >>)]
            /\ UNCHANGED << call, objs >>
       ELSE Respond(LookUpOn(kdTree, objs,
                             Obj([latitude |-> lat, longitude |-> lon]), 1))
  /\ UNCHANGED << fileLines, initCalled, download, acqCallbacks, finalCalled, parse,
                  lineNo, data, kdTree, dataAtBuild, initCallbacks, listening >>

Next ==
  \/ InitCached \/ InitDownload
  \/ Response200 \/ ResponseNot200 \/ RequestError
  \/ ZipClose \/ ZipCloseThrows \/ UnzipClose \/ UnzipError
  \/ ParseLineStep \/ ParseComplete
  \/ LookUp \/ HttpGet

Spec == Init /\ [][Next]_vars

\* ------------------------------------------- the parsing specification
\* One line of any shape, followed by a well-formed line: init finds the
\* cached file, parses it and builds the tree.
LineAlphabet == { TAB, "7" }

InitParse ==
  /\ fileLines \in { << l, LineNear >> : l \in SeqsUpTo(LineAlphabet, MaxLineLen) }
  /\ initCalled = FALSE
  /\ download = "none"
  /\ acqCallbacks = 0
  /\ finalCalled = FALSE
  /\ parse = "none"
  /\ lineNo = 0
  /\ data = <<>>
  /\ kdTree = [built |-> FALSE, root |-> NoNode]
  /\ objs = <<>>
  /\ dataAtBuild = <<>>
  /\ initCallbacks = 0
  /\ listening = FALSE
  /\ call = NoCall
  /\ httpRes = [status |-> 0, body |-> Undefined]

NextParse == InitCached \/ ParseLineStep \/ ParseComplete

SpecParse == InitParse /\ [][NextParse]_vars

\* ---------------------------------------------------------------- claims
\* The call recorded in call was made on a built index.
Served == call.kind = "lookUp" /\ call.built

\* The result sequence nearest gives for one point: the references to its
\* records, in nearest's order.
KNearest(point, k) == Arr(ZipCodeList(Nearest(objs, kdTree.root, point[2], k)))

\* C1: a lookUp of a sequence of n >= 1 points on a built index delivers a
\* sequence of exactly n result sequences, the i-th the K-nearest result
\* sequence of the i-th point.
C1_BatchDeliversAll ==
  (Served /\ call.points[1] = "arr" /\ Len(call.points[2]) >= 1)
    => call.result = Arr([i \in 1..Len(call.points[2]) |->
                            KNearest(call.points[2][i], call.maxResults)])

C3_CallbackAfterBuild ==
  /\ initCallbacks > 0 => kdTree.built
  /\ listening => kdTree.built

C5_Ascending ==
  (Served /\ call.result # Undefined)
    => \A i \in 1..(Len(call.seen) - 1) :
         call.seen[i].distance[2] <= call.seen[i + 1].distance[2]

\* C6: once the index is built no lookUp changes a record it holds.
C6_IndexUnchanged == kdTree.built => objs = dataAtBuild

\* The first point of the call.
FirstPoint == PointsArray(call.points)[1]

\* C7: the result delivered for a point, records and distances, is what the
\* lookUp of that point alone delivers on the index as built.
C7_Independent ==
  (Served /\ Len(PointsArray(call.points)) >= 1)
    => call.seen =
         LookUpOn(kdTree, dataAtBuild, FirstPoint, call.maxResults).seen

TabPositions(line) == { p \in 1..Len(line) : line[p] = TAB }
KthTab(line, k) ==
  CHOOSE p \in TabPositions(line) :
    Cardinality({ q \in TabPositions(line) : q <= p }) = k

\* The text of the j-th tab-separated field of a line that has one.
FieldText(line, j) ==
  LET first == IF j = 1 THEN 1 ELSE KthTab(line, j - 1) + 1
      last == IF j > Cardinality(TabPositions(line)) THEN Len(line)
              ELSE KthTab(line, j) - 1
  IN SubSeq(line, first, last)

\* C9: every line parsed is a record of exactly the 12 schema fields, each
\* the field at its position, null when the line has no such field or the
\* field is empty; each line read so far has its record, whatever the lines
\* before it.
C9_ParsedByPosition ==
  /\ Len(data) = lineNo
  /\ parse = "complete" => Len(data) = Len(fileLines)
  /\ \A i \in 1..Len(data) :
       /\ data[i]["distance"] = Undefined
       /\ \A j \in 1..Len(POSTALCODE_COLUMNS) :
            data[i][POSTALCODE_COLUMNS[j]] =
              IF j > Cardinality(TabPositions(fileLines[i])) + 1
                 \/ FieldText(fileLines[i], j) = <<>>
              THEN Null
              ELSE Str(FieldText(fileLines[i], j))

\* A line of fewer than 12 fields, one of them empty, was parsed, and the
\* line after it too.
C9_Witness ==
  /\ parse = "complete"
  /\ Len(data) = 2
  /\ Cardinality(TabPositions(fileLines[1])) \in 2..10
  /\ \E j \in 1..Cardinality(TabPositions(fileLines[1])) :
       FieldText(fileLines[1], j) = <<>>
  /\ data[1]["accuracy"] = Null
  /\ data[2]["latitude"] = Str(<< "1" >>)

\* A line with both a latitude and a longitude field.
WellFormed(line) ==
  /\ Cardinality(TabPositions(line)) >= 10
  /\ FieldText(line, 10) # <<>>
  /\ FieldText(line, 11) # <<>>

\* C10: a line without latitude and longitude contributes no record to the
\* index: every record of the index has both, and the well-formed lines are
\* all indexed.
C10_MalformedSkipped ==
  kdTree.built
    => /\ \A i \in 1..Len(objs) :
            objs[i]["latitude"] # Null /\ objs[i]["longitude"] # Null
       /\ Len(objs) = Cardinality({ i \in 1..Len(fileLines) : WellFormed(fileLines[i]) })

\* C11: for every outcome of data acquisition, _getGeoNamesPostalCodeData
\* calls its continuation at most once and init calls its completion
\* callback at most once; no parse is started by a continuation that comes
\* after the completion callback has run.
C11_ContinuationOnce ==
  /\ acqCallbacks <= 1
  /\ initCallbacks <= 1
  /\ finalCalled => parse # "reading"

====
